---- MODULE Spec2Model ----
(***************************************************************************)
(* State-machine model of NYPL/awscli_tools:                               *)
(*   configure_snowball.py   unlock a Snowball Edge, fetch its keys and    *)
(*                           configure an awscli profile for it            *)
(*   transfer_to_snowball.py sync a drive to the Snowball and reconcile    *)
(*   misc_drive_upload.py    the same against the deep-archive bucket      *)
(* One action per external command the scripts run, together with the      *)
(* Python code that follows it up to the next external command.            *)
(***************************************************************************)
EXTENDS Integers, Sequences, FiniteSets, TLC

\* ------------------------------------------------------------- bounds
\* Calendar days the model distinguishes (datetime.now() formatted %Y%m%d).
MaxDate == 2

\* Unlock codes of the devices on the network; a device is named by its code.
UnlockCodes == {"c1", "c2"}

\* Python's None, as a profile name or key.
None == <<>>

VARIABLES
    \* the world outside the scripts
    date,            \* today, 1..MaxDate
    devState,        \* device -> UnlockStatus.State that describe-device reports
    regExists,       \* ~/.aws/snowball/config/snowball-edge.config exists
    registry,        \* its "profiles" object, in file order: <<[name, unlockCode]>>
    credsExists,     \* ~/.aws/credentials exists
    creds,           \* its sections, in file order: <<[name, key]>>
    \* one run of a script
    prog,            \* which script this behaviour runs
    pc,              \* position of the run
    args,            \* the command line
    reported,        \* the state describe-device reported to this run
    profile,         \* setup_snowball's local `profile`
    access_key,
    secret_key,
    awscli_profile,
    response,        \* stdout of get-secret-access-key, until it has been used
    error,           \* the exception that ended the run, "" if none
    cmds,            \* external commands executed by this run, in order
    \* history
    last,            \* the run before this one, if it found its device unlocked
    created,         \* (name, key) of every profile config_awscli has created
    prevCall,        \* the config_awscli call before the latest one
    thisCall,        \* the latest config_awscli call
    \* the drive and the bucket
    tree,            \* files on the source drive (ids of Paths)
    remote,          \* objects under the target prefix: path id -> Size
    source_set,      \* check_transfer's source manifest
    remote_set,      \* check_transfer's snowball_set / deeparchive_set
    contents,        \* ls_call's accumulator
    starting_token,  \* ls_call's continuation token
    differences      \* what check_transfer returned

envVars == <<date, devState, regExists, registry, credsExists, creds>>
runVars == <<pc, args, reported, profile, access_key, secret_key, awscli_profile,
            response, error, cmds>>
histVars == <<last, created, prevCall, thisCall>>
xferVars == <<tree, remote, source_set, remote_set, contents, starting_token,
             differences>>
vars == <<envVars, prog, runVars, histVars, xferVars>>

\* ------------------------------------------------------------- names
\* f'xfr-{datetime.now().strftime("%Y%m%d")}'
XfrName(d) == <<"xfr", d>>

\* f'cli-{datetime.now().strftime("%Y%m%d")}'
CliName(d) == <<"cli", d>>

\* The access key id a device hands out (AccessKeyIds[0]).
KeyOf(code) == <<"AK", code>>

AccessKeys == {KeyOf(c) : c \in UnlockCodes}

Ended == {"idle", "rejected", "failed", "done"}

\* ------------------------------------------------------------- argparse
validate_file(p) == p = "is_file"

validate_unlock(u) == u \in UnlockCodes

validate_ip_never_rejects(ip) == TRUE

validate_ip(ip) == ip = "dotted_quad"

\* The command lines tried: each value either passes its validator's test or not.
ConfigureArgs ==
    [manifest : {"is_file", "missing"},
     unlock_code : UnlockCodes \cup {"malformed"},
     ip : {"dotted_quad", "malformed"}]

\* ------------------------------------------------------------- registry
\* cfg['profiles'].keys()
get_snowball_profiles(reg) == {reg[i].name : i \in DOMAIN reg}

MatchingProfiles(reg, unlock_code) ==
    {i \in DOMAIN reg : reg[i].unlockCode = unlock_code}

get_snowballedge_profile_by_date(reg, unlock_code, d) == XfrName(d)

\* for key, value in profiles['profiles'].items(): first one whose unlockCode
\* matches; falls off the end (None) when there is none.  The third parameter
\* is today's date, which the lookup does not read.
get_snowballedge_profile(reg, unlock_code, d) ==
    LET m == MatchingProfiles(reg, unlock_code)
    IN IF m = {} THEN None
       ELSE reg[CHOOSE i \in m : \A j \in m : i <= j].name

\* What `snowballEdge unlock-device --profile name` leaves in the registry when
\* it succeeds: the profile, bound to the unlock code it was given.
RegisterProfile(reg, name, unlock_code) ==
    IF name \in get_snowball_profiles(reg)
    THEN [i \in DOMAIN reg |->
            IF reg[i].name = name
            THEN [name |-> name, unlockCode |-> unlock_code]
            ELSE reg[i]]
    ELSE Append(reg, [name |-> name, unlockCode |-> unlock_code])

\* The unlock code a registry profile is bound to: the device that
\* `snowballEdge ... --profile name` talks to.
DeviceOf(reg, name) ==
    LET i == CHOOSE i \in DOMAIN reg : reg[i].name = name
    IN reg[i].unlockCode

\* ------------------------------------------------------------- is_unlocked
\* state == 'UNLOCKED'
is_unlocked(state) == state = "UNLOCKED"

\* ------------------------------------------------------------- secret key
SectionNames == {"snowballEdge", "other"}

OptionNames == {"aws_access_key_id", "aws_secret_access_key"}

\* stdout of get-secret-access-key as ConfigParser sees it: text before any
\* section header (an error message) or not, and the options of each section.
SecretResponses ==
    {[garbage |-> g, sections |-> s, none |-> FALSE] :
        g \in BOOLEAN,
        s \in UNION {[S -> SUBSET OptionNames] : S \in SUBSET SectionNames}}

SecretValue == "secret"

get_snowball_secret_key_lenient(resp) ==
    IF resp.garbage THEN [raised |-> TRUE, value |-> None]
    ELSE IF "snowballEdge" \in DOMAIN resp.sections
            /\ "aws_secret_access_key" \in resp.sections["snowballEdge"]
         THEN [raised |-> FALSE, value |-> SecretValue]
         ELSE [raised |-> FALSE, value |-> ""]

\* cfg.read_string(stdout); cfg['snowballEdge']['aws_secret_access_key'];
\* any exception becomes Exception('Snowball was not configured ...').
get_snowball_secret_key(resp) ==
    IF resp.garbage THEN [raised |-> TRUE, value |-> None]
    ELSE IF "snowballEdge" \notin DOMAIN resp.sections
         THEN [raised |-> TRUE, value |-> None]
         ELSE IF "aws_secret_access_key" \notin resp.sections["snowballEdge"]
              THEN [raised |-> TRUE, value |-> None]
              ELSE [raised |-> FALSE, value |-> SecretValue]

\* ------------------------------------------------------------- awscli profiles
get_awscli_profile_no_lookup(cr, key) == None

\* for key in cfg: the first section whose aws_access_key_id is the key.
get_awscli_profile(cr, key) ==
    LET m == {i \in DOMAIN cr : cr[i].key = key}
    IN IF m = {} THEN None
       ELSE cr[CHOOSE i \in m : \A j \in m : i <= j].name

\* `aws configure --profile name set aws_access_key_id key`
ConfigureSet(cr, name, key) ==
    IF \E i \in DOMAIN cr : cr[i].name = name
    THEN [i \in DOMAIN cr |->
            IF cr[i].name = name THEN [name |-> name, key |-> key] ELSE cr[i]]
    ELSE Append(cr, [name |-> name, key |-> key])

ConfigureCmds == <<"configure-set", "configure-set", "configure-set">>

\* config_awscli(access_key, secret_key) on date d over credentials cr:
\* the profile returned, the credentials left behind, the commands run.
config_awscli(cr, key, d) ==
    LET existing_profile == get_awscli_profile(cr, key)
    IN IF existing_profile # None
       THEN [profile |-> existing_profile, creds |-> cr, cmds |-> <<>>]
       ELSE [profile |-> CliName(d),
             creds |-> ConfigureSet(cr, CliName(d), key),
             cmds |-> ConfigureCmds]

NoCall == [key |-> None, profile |-> None, ncmds |-> 0, unchanged |-> TRUE,
           raised |-> FALSE]

NoSetup == [code |-> "none", profile |-> None]

\* check_transfer's False: nothing differs.
NoResult == [falsy |-> TRUE, source_diff |-> {}, snowball_diff |-> {}]

NoResponse == [garbage |-> FALSE, sections |-> <<>>, none |-> TRUE]

\* ------------------------------------------------------------- initial state
InitEnv ==
    /\ date = 1
    /\ devState \in [UnlockCodes -> {"LOCKED", "UNLOCKED"}]
    /\ regExists \in BOOLEAN
    /\ registry = <<>>
    /\ credsExists \in BOOLEAN
    /\ creds = <<>>

InitRun ==
    /\ pc = "idle"
    /\ args = [manifest |-> "is_file", unlock_code |-> "c1", ip |-> "dotted_quad"]
    /\ reported = "none"
    /\ profile = None
    /\ access_key = None
    /\ secret_key = None
    /\ awscli_profile = None
    /\ response = NoResponse
    /\ error = ""
    /\ cmds = <<>>

InitHist ==
    /\ last = NoSetup
    /\ created = {}
    /\ prevCall = NoCall
    /\ thisCall = NoCall

\* No drive and no bucket: the scripts that use them are not running.
NoXfer ==
    /\ tree = {}
    /\ remote = <<>>
    /\ source_set = {}
    /\ remote_set = {}
    /\ contents = <<>>
    /\ starting_token = None
    /\ differences = NoResult

Init ==
    /\ prog = "configure_snowball"
    /\ InitEnv
    /\ InitRun
    /\ InitHist
    /\ NoXfer

\* ------------------------------------------------------------- the world
\* Midnight passes.
Tick ==
    /\ prog \in {"configure_snowball", "config_awscli"}
    /\ date < MaxDate
    /\ date' = date + 1
    /\ UNCHANGED <<devState, regExists, registry, credsExists, creds>>
    /\ UNCHANGED <<prog, runVars, histVars, xferVars>>

\* A device that was told to unlock finishes unlocking.
DeviceSettle ==
    \E d \in UnlockCodes :
        /\ prog = "configure_snowball"
        /\ devState[d] = "UNLOCKING"
        /\ devState' = [devState EXCEPT ![d] = "UNLOCKED"]
        /\ UNCHANGED <<date, regExists, registry, credsExists, creds>>
        /\ UNCHANGED <<prog, runVars, histVars, xferVars>>

\* A device is power-cycled between runs and comes back locked.
PowerCycle ==
    \E d \in UnlockCodes :
        /\ prog = "configure_snowball"
        /\ pc \in Ended
        /\ devState[d] = "UNLOCKED"
        /\ devState' = [devState EXCEPT ![d] = "LOCKED"]
        /\ UNCHANGED <<date, regExists, registry, credsExists, creds>>
        /\ UNCHANGED <<prog, runVars, histVars, xferVars>>

\* ------------------------------------------------------------- configure_snowball
Fail(exc) ==
    /\ pc' = "failed"
    /\ error' = exc

\* main(): parser.parse_args().  A run starts; the summary of the run before
\* it, if that one called setup_snowball, becomes `last`.
ParseArgs ==
    /\ UNCHANGED xferVars
    /\ prog = "configure_snowball"
    /\ pc \in Ended
    /\ \E a \in ConfigureArgs :
        /\ args' = a
        /\ IF validate_file(a.manifest) /\ validate_unlock(a.unlock_code)
              /\ validate_ip(a.ip)
           THEN pc' = "setup_snowball" /\ error' = ""
           ELSE pc' = "rejected" /\ error' = "ArgumentTypeError"
    /\ last' = IF cmds = <<>> THEN last
               ELSE IF reported = "UNLOCKED"
                    THEN [code |-> args.unlock_code, profile |-> profile]
                    ELSE NoSetup
    /\ reported' = "none"
    /\ profile' = None
    /\ access_key' = None
    /\ secret_key' = None
    /\ awscli_profile' = None
    /\ response' = NoResponse
    /\ cmds' = <<>>
    /\ UNCHANGED <<envVars, prog, created, prevCall, thisCall>>

\* setup_snowball: is_unlocked() runs describe-device; on an unlocked device
\* the profile is looked up in the registry (and a message printed when there
\* is none), then control falls through to get_snowball_access_key.
SetupSnowball ==
    /\ UNCHANGED xferVars
    /\ pc = "setup_snowball"
    /\ cmds' = Append(cmds, "describe-device")
    /\ reported' = devState[args.unlock_code]
    /\ IF is_unlocked(devState[args.unlock_code])
       THEN IF regExists
            THEN /\ profile' = get_snowballedge_profile(registry, args.unlock_code, date)
                 /\ pc' = "get_snowball_access_key"
                 /\ error' = error
            ELSE /\ profile' = profile
                 /\ Fail("FileNotFoundError")
       ELSE /\ profile' = profile
            /\ pc' = "unlock_snowball"
            /\ error' = error
    /\ UNCHANGED <<envVars, prog, args, access_key, secret_key, awscli_profile,
                   response, histVars>>

\* unlock_snowball, up to time.sleep(180): the profile name is taken from the
\* date and unlock-device is run with timeout=3.  The command succeeds (the
\* device starts unlocking, the client registers the profile), fails (exit
\* status ignored) or is killed by the timeout.
UnlockSnowballCall ==
    /\ UNCHANGED xferVars
    /\ pc = "unlock_snowball"
    /\ profile' = XfrName(date)
    /\ cmds' = Append(cmds, "unlock-device")
    /\ LET d == args.unlock_code
           started == [devState EXCEPT ![d] =
                          IF devState[d] = "LOCKED" THEN "UNLOCKING" ELSE devState[d]]
       IN \/ /\ devState' = started
             /\ regExists' = TRUE
             /\ registry' = RegisterProfile(registry, XfrName(date), d)
             /\ pc' = "sleep"
             /\ error' = error
          \/ /\ UNCHANGED <<devState, regExists, registry>>
             /\ pc' = "sleep"
             /\ error' = error
          \/ /\ devState' \in {devState, started}
             /\ UNCHANGED <<regExists, registry>>
             /\ Fail("TimeoutExpired")
    /\ UNCHANGED <<date, credsExists, creds, prog, args, reported, access_key,
                   secret_key, awscli_profile, response, histVars>>

UnlockVerified_unchecked(exists, reg, name) == TRUE

\* if not profile in get_snowball_profiles(): raise Exception(...)
UnlockVerified(exists, reg, name) == exists /\ name \in get_snowball_profiles(reg)

\* unlock_snowball after the sleep: the post-condition check.
UnlockSnowballVerify ==
    /\ UNCHANGED xferVars
    /\ pc = "sleep"
    /\ IF UnlockVerified(regExists, registry, profile)
       THEN pc' = "get_snowball_access_key" /\ error' = error
       ELSE Fail(IF regExists THEN "Exception" ELSE "FileNotFoundError")
    /\ UNCHANGED <<envVars, prog, args, reported, profile, access_key, secret_key,
                   awscli_profile, response, cmds, histVars>>

\* get_snowball_access_key(profile).  With profile None the argument list
\* holds None and subprocess raises TypeError before anything is executed.
\* Otherwise list-access-keys runs against the device the profile is bound
\* to; it answers with its key when unlocked, and may answer with no key.
GetSnowballAccessKey ==
    /\ UNCHANGED xferVars
    /\ pc = "get_snowball_access_key"
    /\ IF profile = None
       THEN /\ Fail("TypeError")
            /\ UNCHANGED <<cmds, access_key>>
       ELSE /\ cmds' = Append(cmds, "list-access-keys")
            /\ \/ /\ profile \in get_snowball_profiles(registry)
                  /\ devState[DeviceOf(registry, profile)] = "UNLOCKED"
                  /\ access_key' = KeyOf(DeviceOf(registry, profile))
                  /\ pc' = "get_snowball_secret_key"
                  /\ error' = error
               \/ /\ access_key' = access_key
                  /\ Fail("IndexError")
    /\ UNCHANGED <<envVars, prog, args, reported, profile, secret_key,
                   awscli_profile, response, histVars>>

\* get_snowball_secret_key(profile, access_key)
GetSnowballSecretKey ==
    /\ UNCHANGED xferVars
    /\ pc = "get_snowball_secret_key"
    /\ cmds' = Append(cmds, "get-secret-access-key")
    /\ \E resp \in SecretResponses :
        LET r == get_snowball_secret_key(resp)
        IN /\ response' = resp
           /\ IF r.raised
              THEN secret_key' = secret_key /\ Fail("Exception")
              ELSE /\ secret_key' = r.value
                   /\ pc' = "config_awscli"
                   /\ error' = error
    /\ UNCHANGED <<envVars, prog, args, reported, profile, access_key,
                   awscli_profile, histVars>>

\* main(): awscli_profile = config_awscli(access_key, secret_key).  The
\* credentials file is opened without a test that it exists.
ConfigAwscli ==
    /\ UNCHANGED xferVars
    /\ pc = "config_awscli"
    /\ response' = NoResponse
    /\ IF credsExists
       THEN LET r == config_awscli(creds, access_key, date)
            IN /\ creds' = r.creds
               /\ awscli_profile' = r.profile
               /\ cmds' = cmds \o r.cmds
               /\ pc' = "check_snowball_access"
               /\ error' = error
       ELSE /\ UNCHANGED <<creds, awscli_profile, cmds>>
            /\ Fail("FileNotFoundError")
    /\ UNCHANGED <<date, devState, regExists, registry, credsExists>>
    /\ UNCHANGED <<prog, args, reported, profile, access_key, secret_key, histVars>>

\* check_snowball_access: `aws s3 ls` with timeout=1; a timeout is printed.
CheckSnowballAccess ==
    /\ UNCHANGED xferVars
    /\ pc = "check_snowball_access"
    /\ cmds' = Append(cmds, "s3-ls")
    /\ pc' = "done"
    /\ UNCHANGED <<envVars, prog, args, reported, profile, access_key, secret_key,
                   awscli_profile, response, error, histVars>>

Next ==
    \/ Tick
    \/ DeviceSettle
    \/ PowerCycle
    \/ ParseArgs
    \/ SetupSnowball
    \/ UnlockSnowballCall
    \/ UnlockSnowballVerify
    \/ GetSnowballAccessKey
    \/ GetSnowballSecretKey
    \/ ConfigAwscli
    \/ CheckSnowballAccess

Spec == Init /\ [][Next]_vars

\* ------------------------------------------------------------- config_awscli, called directly
\* Access keys handed to config_awscli when it is exercised on its own.
CallKeys == AccessKeys \cup {<<"AK", "other">>}

InitAwscli ==
    /\ prog = "config_awscli"
    /\ date = 1
    /\ devState = [c \in UnlockCodes |-> "LOCKED"]
    /\ regExists = FALSE
    /\ registry = <<>>
    /\ credsExists \in BOOLEAN
    /\ creds = <<>>
    /\ InitRun
    /\ InitHist
    /\ NoXfer

\* config_awscli(k, secret) called by itself, with the calls remembered.
CallConfigAwscli ==
    /\ UNCHANGED xferVars
    /\ prog = "config_awscli"
    /\ \E k \in CallKeys :
        /\ access_key' = k
        /\ prevCall' = thisCall
        /\ IF credsExists
           THEN LET r == config_awscli(creds, k, date)
                IN /\ creds' = r.creds
                   /\ awscli_profile' = r.profile
                   /\ cmds' = r.cmds
                   /\ created' = IF r.cmds # <<>>
                                 THEN created \cup {[name |-> r.profile, key |-> k]}
                                 ELSE created
                   /\ thisCall' = [key |-> k, profile |-> r.profile,
                                   ncmds |-> Len(r.cmds),
                                   unchanged |-> r.creds = creds, raised |-> FALSE]
                   /\ pc' = "done"
                   /\ error' = ""
           ELSE /\ UNCHANGED <<creds, created>>
                /\ awscli_profile' = None
                /\ cmds' = <<>>
                /\ thisCall' = [key |-> k, profile |-> None, ncmds |-> 0,
                                unchanged |-> TRUE, raised |-> TRUE]
                /\ Fail("FileNotFoundError")
    /\ UNCHANGED <<date, devState, regExists, registry, credsExists>>
    /\ UNCHANGED <<prog, args, reported, profile, secret_key, response, last>>

NextAwscli ==
    \/ Tick
    \/ CallConfigAwscli

SpecAwscli == InitAwscli /\ [][NextAwscli]_vars

\* ------------------------------------------------------------- drive and bucket
\* Largest object size the bucket may hold; files on the drive have size 1.
MaxSize == 2

\* Entries one listing call returns at most (S3 returns up to 1000 keys).
PageSize == 2

\* The files a drive may hold, by path relative to the drive, in the order
\* S3 lists their keys (upper case sorts before lower case).
Paths == << <<"Audio", "a.wav">>, <<"Other", "o.wav">>, <<"b.pdf">>, <<"m.json">> >>

PathIds == DOMAIN Paths

\* str(drive_path), by path segment
DrivePath == <<"Volumes", "drive">>

\* f'{args.prefix}/{drive_name}'
TargetPrefix == <<"MPS-snowball", "drive">>

st_size(q) == 1

RemoteWorlds == UNION {[S -> 1..MaxSize] : S \in SUBSET PathIds}

\* path.suffix
Suffix(path) ==
    LET name == path[Len(path)]
    IN CASE name \in {"a.wav", "o.wav"} -> ".wav"
         [] name = "b.pdf" -> ".pdf"
         [] name = "m.json" -> ".json"
         [] OTHER -> ""

RECURSIVE StrReplace(_, _)
\* str.replace(old, ''): every occurrence of old is removed.
StrReplace(str, old) ==
    IF Len(str) < Len(old) \/ old = <<>> THEN str
    ELSE IF SubSeq(str, 1, Len(old)) = old
         THEN StrReplace(SubSeq(str, Len(old) + 1, Len(str)), old)
         ELSE <<Head(str)>> \o StrReplace(Tail(str), old)

\* glob('*') of the drive, and glob('**/*') of Audio, Video and Film
Globbed(path) == Len(path) = 1 \/ path[1] \in {"Audio", "Video", "Film"}

\* get_files_on_source(drive_path): (path relative to the drive, size) of
\* every globbed file that is neither .txt nor .json.
get_files_on_source(t) ==
    {[path |-> StrReplace(DrivePath \o Paths[q], DrivePath), size |-> st_size(q)] :
        q \in {x \in t : Globbed(Paths[x]) /\ Suffix(Paths[x]) \notin {".txt", ".json"}}}

\* --exclude '*' --include '*.mkv' ... '*.wav' ... --include '*Images*'
IncludedBySync(path) ==
    \/ Suffix(path) \in {".mkv", ".mp4", ".mov", ".flac", ".dv", ".iso", ".cue",
                         ".wav", ".scc", ".srt"}
    \/ \E i \in DOMAIN path : path[i] = "Images"

\* `aws s3 sync source target_dest` with sync_bigfiles' filters: every included
\* file is under the prefix afterwards, with the size it has on the drive.
sync_bigfiles(t, rem) ==
    LET inc == {q \in t : IncludedBySync(Paths[q])}
    IN [q \in DOMAIN rem \cup inc |-> IF q \in inc THEN st_size(q) ELSE rem[q]]

RECURSIVE Ascending(_)
Ascending(S) ==
    IF S = {} THEN <<>>
    ELSE LET m == CHOOSE x \in S : \A y \in S : x <= y
         IN <<m>> \o Ascending(S \ {m})

\* The whole listing of the prefix, in key order.
Listing(rem) ==
    LET ids == Ascending(DOMAIN rem)
    IN [i \in DOMAIN ids |-> [Key |-> TargetPrefix \o Paths[ids[i]], Size |-> rem[ids[i]]]]

\* One listing call: the Contents of the page that follows the token.
ListObjects(rem, token) ==
    LET all == Listing(rem)
        pos == IF token = None THEN 0
               ELSE CHOOSE i \in DOMAIN all : all[i].Key = token
        top == IF pos + PageSize < Len(all) THEN pos + PageSize ELSE Len(all)
    IN SubSeq(all, pos + 1, top)

\* {(x['Key'].replace(target_prefix, ''), x['Size']) for x in contents}
ManifestOf(cont) ==
    {[path |-> StrReplace(cont[i].Key, TargetPrefix), size |-> cont[i].Size] :
        i \in DOMAIN cont}

\* compare_source_snowball: None when the sets are equal, else both differences.
compare_source_snowball(source, snowball) ==
    IF source = snowball THEN NoResult
    ELSE [falsy |-> FALSE,
          source_diff |-> source \ snowball,
          snowball_diff |-> snowball \ source]

\* check_transfer's tail: `if not difference: return False; else: return difference`
check_transfer(source, snowball) ==
    LET difference == compare_source_snowball(source, snowball)
    IN IF difference.falsy THEN NoResult ELSE difference

\* ------------------------------------------------------------- transfer_to_snowball
validate_dir(p) == p = "is_dir"

\* p in the output of `aws configure list-profiles`
validate_profile_exists(p) == p = "listed"

TransferArgs ==
    [drive : {"is_dir", "missing"},
     profile : {"listed", "unknown"},
     ip : {"dotted_quad", "malformed"},
     check_only : BOOLEAN,
     eavie : BOOLEAN]

\* The orders in which the three validated options may stand on the command line.
ArgvOrders ==
    {o \in [1..3 -> {"drive", "profile", "ip"}] : \A i, j \in 1..3 : o[i] = o[j] => i = j}

\* parse_args: argparse converts the values in command-line order and stops at
\* the first one its validator rejects; validate_profile_exists runs
\* `aws configure list-profiles` when its turn comes.
parse_args_transfer(a, order) ==
    LET ok(opt) == CASE opt = "drive" -> validate_dir(a.drive)
                     [] opt = "profile" -> validate_profile_exists(a.profile)
                     [] opt = "ip" -> validate_ip(a.ip)
        bad == {i \in 1..3 : ~ok(order[i])}
        firstBad == IF bad = {} THEN 4 ELSE CHOOSE i \in bad : \A j \in bad : i <= j
        profilePos == CHOOSE i \in 1..3 : order[i] = "profile"
    IN [rejected |-> bad # {},
        cmds |-> IF profilePos <= firstBad THEN <<"list-profiles">> ELSE <<>>]

InitDrive ==
    /\ date = 1
    /\ devState = [c \in UnlockCodes |-> "UNLOCKED"]
    /\ regExists = FALSE
    /\ registry = <<>>
    /\ credsExists = FALSE
    /\ creds = <<>>
    /\ InitRun
    /\ InitHist
    /\ tree \in SUBSET PathIds
    /\ remote \in RemoteWorlds
    /\ source_set = {}
    /\ remote_set = {}
    /\ contents = <<>>
    /\ starting_token = None
    /\ differences = NoResult

InitSnowball ==
    /\ prog = "transfer_to_snowball"
    /\ InitDrive

InitXfer ==
    /\ prog \in {"transfer_to_snowball", "misc_drive_upload"}
    /\ InitDrive

StartCheck ==
    /\ source_set' = {}
    /\ remote_set' = {}
    /\ contents' = <<>>
    /\ starting_token' = None
    /\ differences' = NoResult

\* main(): parser.parse_args(), then the branch main takes.  One run per
\* behaviour: a run leaves nothing behind but the bucket, and every content
\* of the bucket is an initial state.
ParseArgsTransfer ==
    /\ prog = "transfer_to_snowball"
    /\ pc = "idle"
    /\ \E a \in TransferArgs, order \in ArgvOrders :
        LET r == parse_args_transfer(a, order)
        IN /\ args' = a
           /\ cmds' = r.cmds
           /\ IF r.rejected
              THEN pc' = "rejected" /\ error' = "ArgumentTypeError"
              ELSE /\ error' = ""
                   /\ pc' = IF a.eavie THEN "transfer_eavie_files"
                            ELSE IF a.check_only THEN "check_transfer"
                            ELSE "transfer_files"
    /\ StartCheck
    /\ UNCHANGED <<envVars, prog, reported, profile, access_key, secret_key,
                   awscli_profile, response, histVars, tree, remote>>

\* transfer_files(..., restart=True): sync_smallfiles is skipped, sync_bigfiles runs.
TransferFiles ==
    /\ prog = "transfer_to_snowball"
    /\ pc = "transfer_files"
    /\ cmds' = Append(cmds, "s3-sync")
    /\ remote' = sync_bigfiles(tree, remote)
    /\ pc' = "check_transfer"
    /\ UNCHANGED <<envVars, prog, args, reported, profile, access_key, secret_key,
                   awscli_profile, response, error, histVars, tree, source_set,
                   remote_set, contents, starting_token, differences>>

\* transfer_eavie_files: a sync to s3://bucket/drive_name, outside the prefix.
TransferEavieFiles ==
    /\ pc = "transfer_eavie_files"
    /\ cmds' = Append(cmds, "s3-sync")
    /\ pc' = "done"
    /\ UNCHANGED <<envVars, prog, args, reported, profile, access_key, secret_key,
                   awscli_profile, response, error, histVars, xferVars>>

\* get_files_on_snowball's listing: one list-objects-v2 call with --no-paginate.
get_files_on_snowball(rem) == ListObjects(rem, None)

\* check_transfer and main's report.  json.loads(output)['Contents'] raises
\* when the call printed no contents.
CheckTransferSnowball ==
    /\ prog = "transfer_to_snowball"
    /\ pc = "check_transfer"
    /\ cmds' = Append(cmds, "list-objects-v2")
    /\ source_set' = get_files_on_source(tree)
    /\ LET cont == get_files_on_snowball(remote)
       IN IF cont = <<>>
          THEN /\ Fail("JSONDecodeError")
               /\ UNCHANGED <<remote_set, differences>>
          ELSE /\ remote_set' = ManifestOf(cont)
               /\ differences' = check_transfer(get_files_on_source(tree), ManifestOf(cont))
               /\ pc' = "done"
               /\ error' = error
    /\ UNCHANGED <<envVars, prog, args, reported, profile, access_key, secret_key,
                   awscli_profile, response, histVars, tree, remote, contents,
                   starting_token>>

NextSnowball ==
    \/ ParseArgsTransfer
    \/ TransferFiles
    \/ TransferEavieFiles
    \/ CheckTransferSnowball

\* ------------------------------------------------------------- misc_drive_upload
MiscArgs ==
    [drive : {"is_dir", "missing"}, metadata_only : BOOLEAN, check_only : BOOLEAN]

ParseArgsMisc ==
    /\ prog = "misc_drive_upload"
    /\ pc = "idle"
    /\ \E a \in MiscArgs :
        /\ args' = a
        /\ IF validate_dir(a.drive)
           THEN /\ error' = ""
                /\ pc' = IF a.check_only THEN "check_transfer" ELSE "transfer_files"
           ELSE pc' = "rejected" /\ error' = "ArgumentTypeError"
    /\ cmds' = <<>>
    /\ StartCheck
    /\ UNCHANGED <<envVars, prog, reported, profile, access_key, secret_key,
                   awscli_profile, response, histVars, tree, remote>>

\* transfer_files: both syncs carry --dryrun, so the bucket is left as it is.
TransferFilesMisc ==
    /\ prog = "misc_drive_upload"
    /\ pc = "transfer_files"
    /\ cmds' = IF args.metadata_only
               THEN Append(cmds, "s3-sync-dryrun")
               ELSE cmds \o <<"s3-sync-dryrun", "s3-sync-dryrun">>
    /\ pc' = "check_transfer"
    /\ UNCHANGED <<envVars, prog, args, reported, profile, access_key, secret_key,
                   awscli_profile, response, error, histVars, xferVars>>

\* check_transfer: get_files_on_source, then get_files_on_deeparchive's first
\* ls_call() with a fresh accumulator and no token.
CheckTransferMisc ==
    /\ prog = "misc_drive_upload"
    /\ pc = "check_transfer"
    /\ source_set' = get_files_on_source(tree)
    /\ contents' = <<>>
    /\ starting_token' = None
    /\ pc' = "ls_call"
    /\ UNCHANGED <<envVars, prog, args, reported, profile, access_key, secret_key,
                   awscli_profile, response, error, cmds, histVars, tree, remote,
                   remote_set, differences>>

LastKey_of_first_entry(cont) == cont[1].Key

\* contents[-1]['Key']
LastKey(cont) == cont[Len(cont)].Key

\* ls_call: one list-objects call.  With output, the page is appended and
\* ls_call recurses with the last key as token; without, the recursion unwinds,
\* the manifest is built, and check_transfer calls compare_source_snowball, a
\* name misc_drive_upload.py does not define.
LsCall ==
    /\ pc = "ls_call"
    /\ cmds' = Append(cmds, IF starting_token = None THEN "list-objects"
                            ELSE "list-objects-from-token")
    /\ LET output == ListObjects(remote, starting_token)
       IN IF output # <<>>
          THEN /\ contents' = contents \o output
               /\ starting_token' = LastKey(contents \o output)
               /\ UNCHANGED <<pc, error, remote_set>>
          ELSE /\ remote_set' = ManifestOf(contents)
               /\ Fail("NameError")
               /\ UNCHANGED <<contents, starting_token>>
    /\ UNCHANGED <<envVars, prog, args, reported, profile, access_key, secret_key,
                   awscli_profile, response, histVars, tree, remote, source_set,
                   differences>>

NextMisc ==
    \/ ParseArgsMisc
    \/ TransferFilesMisc
    \/ CheckTransferMisc
    \/ LsCall

SpecXfer == InitXfer /\ [][NextSnowball \/ NextMisc]_vars

\* misc_drive_upload alone, on a drive that holds every path, against every
\* bucket content (the listing does not read the drive).  The script is one
\* sequential process: whenever it has a next step, it takes it.
InitMisc ==
    /\ prog = "misc_drive_upload"
    /\ InitDrive
    /\ tree = PathIds

SpecMisc == InitMisc /\ [][NextMisc]_vars /\ WF_vars(NextMisc)

\* ------------------------------------------------------------- both command lines
InitCli == Init \/ InitSnowball

SpecCli == InitCli /\ [][Next \/ NextSnowball]_vars

\* ============================================================= claims
UnlockIssued == \E i \in DOMAIN cmds : cmds[i] = "unlock-device"

Issued(c) == \E i \in DOMAIN cmds : cmds[i] = c

\* C1: the unlock-device call is issued only when the device reported Locked,
\* never while it reports Unlocking or Unlocked.
C1_UnlockOnlyWhenLocked == UnlockIssued => reported = "LOCKED"

\* C2: two setup_snowball invocations in a row that both find the device
\* Unlocked resolve the same profile name, and a run that finds the device
\* Unlocked issues no unlock-device call.
C2_UnlockedIdempotent ==
    /\ reported = "UNLOCKED" => ~UnlockIssued
    /\ (reported = "UNLOCKED" /\ last # NoSetup /\ last.code = args.unlock_code)
          => profile = last.profile

C2_Witness ==
    /\ pc = "done"
    /\ reported = "UNLOCKED"
    /\ last # NoSetup
    /\ last.code = args.unlock_code
    /\ profile # None
    /\ date = 2

\* The device reported Unlocked and the registry holds no profile for its code.
UnconfiguredCase == reported = "UNLOCKED" /\ regExists /\ profile = None

\* C3: on an Unlocked device with no registered profile for the unlock code,
\* setup_snowball ends the run there, with its own outcome and not with an
\* incidental exception, and runs no unlock, access-key or secret-key command.
C3_UnconfiguredEndsRun ==
    UnconfiguredCase =>
        /\ pc \in Ended
        /\ error # "TypeError"
        /\ ~UnlockIssued
        /\ ~Issued("list-access-keys")
        /\ ~Issued("get-secret-access-key")

ProfileRegistered == regExists /\ profile \in get_snowball_profiles(registry)

\* C4: when the post-unlock check finds the new profile absent from the
\* registry the run fails at once, and a failed run executes no further
\* command (no key query, no awscli configuration).
C4_UnlockFailureIsFatal ==
    [][ /\ (pc = "sleep" /\ pc' # "sleep" /\ ~ProfileRegistered)
            => (pc' = "failed" /\ error' \in {"Exception", "FileNotFoundError"}
                /\ cmds' = cmds /\ creds' = creds)
        /\ pc = "failed" => (cmds' = cmds \/ cmds' = <<>>) /\ creds' = creds
      ]_vars

C4_Witness ==
    /\ pc = "failed"
    /\ error = "Exception"
    /\ regExists
    /\ cmds = <<"describe-device", "unlock-device">>
    /\ profile \notin get_snowball_profiles(registry)

\* C5: two config_awscli calls in a row with the same access key return the
\* same profile name, and the second runs no configure command and leaves the
\* credentials store as it was, whatever the dates of the two calls.
C5_ConfigAwscliIdempotent ==
    (prevCall # NoCall /\ thisCall.key = prevCall.key) =>
        /\ thisCall.profile = prevCall.profile
        /\ thisCall.ncmds = 0
        /\ thisCall.unchanged

C5_Witness ==
    /\ prevCall # NoCall
    /\ thisCall.key = prevCall.key
    /\ prevCall.ncmds = 3
    /\ thisCall.profile = CliName(1)
    /\ date = 2
    /\ Len(creds) = 1

\* The secret-key response lacks the [snowballEdge] section or its
\* aws_secret_access_key option.
LacksSecret(resp) ==
    \/ "snowballEdge" \notin DOMAIN resp.sections
    \/ "aws_secret_access_key" \notin resp.sections["snowballEdge"]

\* C8: a secret-key response without the expected section or key makes
\* get_snowball_secret_key raise; no secret, empty or partial, is returned,
\* and the awscli configuration only ever sees the device's secret.
C8_SecretParseFailsLoudly ==
    /\ (response # NoResponse /\ LacksSecret(response))
          => (pc = "failed" /\ error = "Exception" /\ secret_key = None)
    /\ pc \in {"config_awscli", "check_snowball_access", "done"}
          => secret_key = SecretValue

C8_Witness ==
    /\ response # NoResponse
    /\ ~response.garbage
    /\ "snowballEdge" \in DOMAIN response.sections
    /\ "aws_secret_access_key" \notin response.sections["snowballEdge"]
    /\ pc = "failed"
    /\ cmds[Len(cmds)] = "get-secret-access-key"

\* check_transfer has run its lister and compared (or tried to).
Listed ==
    \/ prog = "transfer_to_snowball" /\ pc = "done" /\ ~args.eavie
    \/ prog = "misc_drive_upload" /\ pc = "failed" /\ error = "NameError"

FullManifest(rem) == {[path |-> Paths[q], size |-> rem[q]] : q \in DOMAIN rem}

\* C6: the remote lister returns every entry of every page of the listing,
\* once each, and nothing else; it does not stop after the first page.
C6_ListerReturnsAllPages == Listed => remote_set = FullManifest(remote)

\* C7: check_transfer returns "no difference" exactly when the two manifests
\* are equal and otherwise source_diff = A \ B and snowball_diff = B \ A, in
\* transfer_to_snowball and in misc_drive_upload.
C7_CheckTransferDiff ==
    Listed =>
        /\ error = ""
        /\ differences.falsy <=> source_set = remote_set
        /\ differences.source_diff = source_set \ remote_set
        /\ differences.snowball_diff = remote_set \ source_set

\* Some value on the command line is one its validator must refuse.
InvalidInput ==
    /\ pc # "idle"
    /\ \/ /\ prog = "configure_snowball"
          /\ \/ args.manifest = "missing"
             \/ args.unlock_code = "malformed"
             \/ args.ip = "malformed"
       \/ /\ prog = "transfer_to_snowball"
          /\ \/ args.drive = "missing"
             \/ args.profile = "unknown"
             \/ args.ip = "malformed"

\* C9 as stated: a run with an invalid input has executed no external command.
C9_NoCommandBeforeRejection == InvalidInput => (pc = "rejected" /\ cmds = <<>>)

\* C9 amended: a run with an invalid input is rejected having executed nothing
\* but, at most, the profile validator's own `aws configure list-profiles`.
C9_OnlyProfileListingBeforeRejection ==
    InvalidInput =>
        /\ pc = "rejected"
        /\ \A i \in DOMAIN cmds : cmds[i] = "list-profiles"
        /\ prog = "configure_snowball" => cmds = <<>>

C9_Witness ==
    /\ prog = "transfer_to_snowball"
    /\ pc = "rejected"
    /\ args.ip = "malformed"
    /\ args.profile = "listed"
    /\ cmds = <<"list-profiles">>

\* C10: every profile config_awscli has created is still in the credentials
\* store under its name and bound to the access key it was created for.
C10_CreatedProfilesKept ==
    \A c \in created :
        \E i \in DOMAIN creds : creds[i].name = c.name /\ creds[i].key = c.key

\* The listing calls this run has issued, in order.
ListCalls ==
    SelectSeq(cmds, LAMBDA c : c \in {"list-objects", "list-objects-from-token"})

\* C11: get_files_on_deeparchive stops issuing listing calls: the first call
\* carries no token, each later one the last key seen so far, every call before
\* the final one returned content, and the final call is one that returns none.
C11_ListerStops ==
    /\ [](pc = "ls_call" =>
            /\ starting_token = IF contents = <<>> THEN None
                                ELSE contents[Len(contents)].Key
            /\ Len(ListCalls) <= Len(contents)
            /\ \A i \in DOMAIN ListCalls :
                 ListCalls[i] = IF i = 1 THEN "list-objects"
                                ELSE "list-objects-from-token")
    /\ []((pc = "failed" /\ error = "NameError") =>
            /\ ListObjects(remote, starting_token) = <<>>
            /\ Len(ListCalls) <= Len(contents) + 1
            /\ ListCalls[Len(ListCalls)] =
                 IF contents = <<>> THEN "list-objects" ELSE "list-objects-from-token")
    /\ (pc = "ls_call") ~> (pc = "failed" /\ error = "NameError")

C11_Witness ==
    /\ prog = "misc_drive_upload"
    /\ pc = "failed"
    /\ error = "NameError"
    /\ Len(ListCalls) = 3
    /\ Len(contents) = 4

\* setup_snowball has returned (profile, access_key, secret_key) to main.
SetupReturned ==
    /\ prog = "configure_snowball"
    /\ pc = "config_awscli"

\* C12: whenever setup_snowball returns a profile name for a device, the
\* registry entry of that name carries this device's unlock code, on the
\* unlock path and on the already-unlocked path alike.
C12_ReturnedProfileIsThisDevice ==
    SetupReturned =>
        /\ profile \in get_snowball_profiles(registry)
        /\ DeviceOf(registry, profile) = args.unlock_code

\* A transfer_to_snowball run that synced the drive and then checked it, where
\* the prefix holds exactly what the sync puts under an empty prefix.
TransferredThenChecked ==
    /\ prog = "transfer_to_snowball"
    /\ pc = "done"
    /\ ~args.eavie
    /\ ~args.check_only
    /\ remote = sync_bigfiles(tree, <<>>)

\* C13: after transfer_files has completed against an initially empty prefix
\* and with the source tree unchanged, check_transfer reports no difference:
\* the source manifest equals the set of objects the sync placed there.
C13_CheckAfterTransferIsClean ==
    TransferredThenChecked =>
        /\ differences.falsy
        /\ source_set = ManifestOf(Listing(remote))

====
